---- MODULE Spec2Model ----
(***************************************************************************)
(* Benchmark normalizer (bench/clean_up.py) and reporter (bench/proc.py).  *)
(* A Python str is a sequence of one-character strings, so that prefix     *)
(* tests, splitting, searching and replacing are computed on characters.   *)
(* A Python dict is a sequence of [k, v] records in insertion order.       *)
(***************************************************************************)
EXTENDS Integers, Sequences, FiniteSets, TLC

\* ---------------------------------------------------------------- bounds
MaxFrags == 3
MaxLines == 1
MaxRuns == 2
MaxImpls == 2
MaxMean == 4

\* ------------------------------------------------------- str primitives
StartsWith(s, p) == Len(s) >= Len(p) /\ SubSeq(s, 1, Len(p)) = p

Drop(s, n) == SubSeq(s, n + 1, Len(s))

RECURSIVE FirstToken(_)
FirstToken(s) ==
    IF s = <<>> \/ Head(s) = " " THEN <<>>
    ELSE <<Head(s)>> \o FirstToken(Tail(s))

RECURSIVE Replace(_, _, _)
Replace(s, old, new) ==
    IF s = <<>> THEN <<>>
    ELSE IF StartsWith(s, old)
         THEN new \o Replace(Drop(s, Len(old)), old, new)
         ELSE <<Head(s)>> \o Replace(Tail(s), old, new)

Digits == {"0", "1", "2", "3", "4", "5", "6", "7", "8", "9"}

RECURSIVE DigitRun(_, _)
DigitRun(s, i) ==
    IF i <= Len(s) /\ s[i] \in Digits THEN 1 + DigitRun(s, i + 1) ELSE 0

unknown == <<"u", "n", "k", "n", "o", "w", "n">>

ScaleOpen == <<"s", "c", "a", "l", "e", "(">>

\* re.search(r'scale\((\d+)\)', s): the digits of the leftmost match
RECURSIVE ScaleSearch(_, _)
ScaleSearch(s, i) ==
    IF i > Len(s) THEN unknown
    ELSE LET d == i + Len(ScaleOpen)
             n == DigitRun(s, d)
         IN  IF /\ StartsWith(Drop(s, i - 1), ScaleOpen)
                /\ n > 0
                /\ d + n <= Len(s)
                /\ s[d + n] = ")"
             THEN SubSeq(s, d, d + n - 1)
             ELSE ScaleSearch(s, i + 1)

\* --------------------------------------------------------------- get_info
naive == <<"n", "a", "i", "v", "e">>
array1d == <<"a", "r", "r", "a", "y", "1", "d">>
array2d == <<"a", "r", "r", "a", "y", "2", "d">>
lib == <<"l", "i", "b">>
other == <<"o", "t", "h", "e", "r">>

ImplOf(op_part) ==
    IF StartsWith(op_part, <<"n", "a", "i", "v", "e", "_">>) THEN naive
    ELSE IF StartsWith(op_part, <<"a", "r", "r", "a", "y", "1", "d", "_">>) \/ StartsWith(op_part, <<"n", "a", "t", "i", "v", "e", "_">>)
         THEN array1d
    ELSE IF \/ StartsWith(op_part, <<"a", "r", "r", "a", "y", "2", "d", "_">>)
            \/ StartsWith(op_part, <<"2", "d", "_">>)
            \/ StartsWith(op_part, <<"_", "2", "d", "_">>) THEN array2d
    ELSE IF StartsWith(op_part, <<"l", "i", "b", "_">>) THEN lib
    ELSE other

prefixes ==
    << <<"n", "a", "i", "v", "e", "_">>, <<"a", "r", "r", "a", "y", "1", "d", "_">>, <<"a", "r", "r", "a", "y", "2", "d", "_">>, <<"l", "i", "b", "_">>, <<"n", "a", "t", "i", "v", "e", "_">>,
       <<"a", "r", "r", "a", "y", "_", "1", "d", "_">>, <<"a", "r", "r", "a", "y", "_", "2", "d", "_">>, <<"2", "d", "_">>, <<"_", "2", "d", "_">> >>

RECURSIVE InsertByLen(_, _)
InsertByLen(sorted, p) ==
    IF sorted = <<>> THEN <<p>>
    ELSE IF Len(Head(sorted)) >= Len(p)
         THEN <<Head(sorted)>> \o InsertByLen(Tail(sorted), p)
         ELSE <<p>> \o sorted

\* list.sort(key=len, reverse=True) is stable
RECURSIVE SortByLenDesc(_)
SortByLenDesc(ps) ==
    IF ps = <<>> THEN <<>>
    ELSE InsertByLen(SortByLenDesc(SubSeq(ps, 1, Len(ps) - 1)), ps[Len(ps)])

SortedPrefixes == SortByLenDesc(prefixes)

\* index of the first prefix of the sorted list that op starts with, or 0
FirstMatch(op) ==
    LET hits == {i \in 1..Len(SortedPrefixes) : StartsWith(op, SortedPrefixes[i])}
    IN  IF hits = {} THEN 0 ELSE CHOOSE i \in hits : \A j \in hits : i <= j

\* variant: one pass of the loop, a second prefix stays
StripOnce(op) ==
    LET i == FirstMatch(op)
    IN  IF i = 0 THEN op ELSE Drop(op, Len(SortedPrefixes[i]))

RECURSIVE StripPrefixes(_)
StripPrefixes(op) ==
    LET i == FirstMatch(op)
    IN  IF i = 0 THEN op
        ELSE StripPrefixes(Drop(op, Len(SortedPrefixes[i])))

mapping ==
    << <<<<"m", "a", "t", "r", "i", "x", "_", "m", "u", "l">>, <<"m", "a", "t", "_", "m", "u", "l">>>>,
       <<<<"m", "a", "t", "r", "i", "x", "_", "v", "e", "c", "t", "o", "r", "_", "m", "u", "l">>, <<"m", "a", "t", "_", "v", "e", "c", "_", "m", "u", "l">>>>,
       <<<<"v", "e", "c", "t", "o", "r", "_", "d", "o", "t">>, <<"v", "e", "c", "_", "d", "o", "t">>>>,
       <<<<"m", "a", "t", "r", "i", "x", "_", "a", "c", "c">>, <<"m", "a", "t", "_", "a", "c", "c">>>>,
       <<<<"m", "a", "t", "r", "i", "x", "_", "a", "c", "c", "e", "s", "s">>, <<"m", "a", "t", "_", "a", "c", "c">>>>,
       <<<<"m", "a", "t", "r", "i", "x", "_", "s", "e", "t", "_", "a", "c", "c">>, <<"m", "a", "t", "_", "s", "e", "t", "_", "a", "c", "c">>>>,
       <<<<"m", "a", "t", "r", "i", "x", "_", "d", "e", "t">>, <<"m", "a", "t", "_", "d", "e", "t">>>>,
       <<<<"m", "a", "t", "r", "i", "x", "_", "d", "e", "t", "e", "r", "m", "i", "n", "a", "n", "t">>, <<"m", "a", "t", "_", "d", "e", "t">>>>,
       <<<<"m", "a", "t", "r", "i", "x", "_", "i", "n", "v">>, <<"m", "a", "t", "_", "i", "n", "v">>>>,
       <<<<"m", "a", "t", "r", "i", "x", "_", "i", "n", "v", "e", "r", "s", "e">>, <<"m", "a", "t", "_", "i", "n", "v">>>>,
       <<<<"m", "a", "t", "r", "i", "x", "_", "r", "a", "n", "k">>, <<"m", "a", "t", "_", "r", "a", "n", "k">>>>,
       <<<<"m", "a", "t", "r", "i", "x", "_", "m", "a", "p", "i">>, <<"m", "a", "t", "_", "m", "a", "p", "i">>>>,
       <<<<"m", "a", "t", "r", "i", "x", "_", "m", "a", "p", "_", "i", "n", "p", "l", "a", "c", "e">>, <<"m", "a", "t", "_", "m", "a", "p", "_", "i", "n", "p", "l", "a", "c", "e">>>>,
       <<<<"m", "u", "l">>, <<"m", "a", "t", "_", "m", "u", "l">>>>,
       <<<<"v", "e", "c", "_", "m", "u", "l">>, <<"m", "a", "t", "_", "v", "e", "c", "_", "m", "u", "l">>>>,
       <<<<"d", "o", "t">>, <<"v", "e", "c", "_", "d", "o", "t">>>>,
       <<<<"a", "c", "c">>, <<"m", "a", "t", "_", "a", "c", "c">>>>,
       <<<<"a", "c", "c", "e", "s", "s">>, <<"m", "a", "t", "_", "a", "c", "c">>>>,
       <<<<"s", "e", "t", "_", "a", "c", "c">>, <<"m", "a", "t", "_", "s", "e", "t", "_", "a", "c", "c">>>>,
       <<<<"m", "a", "p", "i">>, <<"m", "a", "t", "_", "m", "a", "p", "i">>>>,
       <<<<"m", "a", "p", "_", "i", "n", "p", "l", "a", "c", "e">>, <<"m", "a", "t", "_", "m", "a", "p", "_", "i", "n", "p", "l", "a", "c", "e">>>>,
       <<<<"d", "e", "t">>, <<"m", "a", "t", "_", "d", "e", "t">>>>,
       <<<<"d", "e", "t", "e", "r", "m", "i", "n", "a", "n", "t">>, <<"m", "a", "t", "_", "d", "e", "t">>>>,
       <<<<"r", "a", "n", "k">>, <<"m", "a", "t", "_", "r", "a", "n", "k">>>>,
       <<<<"i", "n", "v">>, <<"m", "a", "t", "_", "i", "n", "v">>>>,
       <<<<"i", "n", "v", "e", "r", "s", "e">>, <<"m", "a", "t", "_", "i", "n", "v">>>> >>

Canonical(op) ==
    LET hits == {i \in 1..Len(mapping) : mapping[i][1] = op}
    IN  IF hits # {} THEN mapping[CHOOSE i \in hits : TRUE][2]
        ELSE IF op \in {<<"e", "a", "c", "h">>, <<"e", "a", "c", "h", "_", "r", "o", "w", "_", "c", "o", "l">>, <<"p", "o", "w", "e", "r">>} THEN <<"m", "a", "t", "_">> \o op
        ELSE IF StartsWith(op, <<"m", "a", "t", "r", "i", "x", "_">>) THEN Replace(op, <<"m", "a", "t", "r", "i", "x", "_">>, <<"m", "a", "t", "_">>)
        ELSE IF StartsWith(op, <<"v", "e", "c", "t", "o", "r", "_">>) THEN Replace(op, <<"v", "e", "c", "t", "o", "r", "_">>, <<"v", "e", "c", "_">>)
        ELSE op

get_info(full_name) ==
    LET op_part == FirstToken(full_name)
    IN  [ op    |-> Canonical(StripPrefixes(op_part)),
          scale |-> ScaleSearch(full_name, 1),
          impl  |-> ImplOf(op_part) ]


\* ------------------------------------------------------------ dict model
Has(d, k) == \E i \in 1..Len(d) : d[i].k = k

IndexOf(d, k) == CHOOSE i \in 1..Len(d) : d[i].k = k

Get(d, k) == d[IndexOf(d, k)].v

\* d[k] = v: an existing key keeps its position, a new key goes last
Put(d, k, v) ==
    IF Has(d, k) THEN [d EXCEPT ![IndexOf(d, k)].v = v]
    ELSE Append(d, [k |-> k, v |-> v])

Keys(d) == [i \in 1..Len(d) |-> d[i].k]

EmptyObj == [t |-> "obj", kv |-> <<>>]

\* bool(v) of a JSON value
Truthy(v) ==
    IF v.t = "list" THEN v.items # <<>>
    ELSE IF v.t = "obj" THEN v.kv # <<>>
    ELSE v.truthy

\* ------------------------------------------------------------ normalizer
FILES == << <<"b", "e", "n", "c", "h", "_", "j", "s", ".", "t", "x", "t">>, <<"b", "e", "n", "c", "h", "_", "n", "a", "t", "i", "v", "e", ".", "t", "x", "t">>, <<"b", "e", "n", "c", "h", "_", "w", "a", "s", "m", "-", "g", "c", ".", "t", "x", "t">>, <<"b", "e", "n", "c", "h", "_", "w", "a", "s", "m", ".", "t", "x", "t">> >>

BackendId(filename) == Replace(Replace(filename, <<"b", "e", "n", "c", "h", "_">>, <<>>), <<".", "t", "x", "t">>, <<>>)

\* for full_name, stats in entry.items(): get_info, temp_updates.append
RECURSIVE ItemUpdates(_, _)
ItemUpdates(kv, backend_id) ==
    IF kv = <<>> THEN <<>>
    ELSE LET i == get_info(Head(kv).k)
         IN  << [op |-> i.op, scale |-> i.scale, backend |-> backend_id,
                 impl |-> i.impl, stats |-> Head(kv).v] >>
             \o ItemUpdates(Tail(kv), backend_id)

\* for entry in entries: the entries before the first one without .items()
RECURSIVE EntryUpdates(_, _)
EntryUpdates(items, backend_id) ==
    IF items = <<>> \/ Head(items).t # "obj" THEN <<>>
    ELSE ItemUpdates(Head(items).kv, backend_id)
         \o EntryUpdates(Tail(items), backend_id)

\* one iteration of "for line in f": what the line sets and appends
ParseLine(line, backend_id) ==
    IF ~line.brace \/ ~line.valid \/ line.content = <<>>
    THEN [found |-> FALSE, updates |-> <<>>]
    ELSE LET entries == line.content[1].v
         IN  IF ~Truthy(entries) THEN [found |-> FALSE, updates |-> <<>>]
             ELSE [found |-> TRUE,
                   updates |-> IF entries.t = "list"
                               THEN EntryUpdates(entries.items, backend_id)
                               ELSE <<>>]

RECURSIVE ReadLines(_, _)
ReadLines(ls, backend_id) ==
    IF ls = <<>> THEN [found |-> FALSE, updates |-> <<>>]
    ELSE LET h == ParseLine(Head(ls), backend_id)
             r == ReadLines(Tail(ls), backend_id)
         IN  [found |-> h.found \/ r.found, updates |-> h.updates \o r.updates]

\* variant: an entry already stored at the tuple is kept
MergeEntryKeepFirst(kv, u) ==
    LET t1 == IF Has(kv, u.op) THEN kv ELSE Put(kv, u.op, <<>>)
        o1 == Get(t1, u.op)
        o2 == IF Has(o1, u.scale) THEN o1 ELSE Put(o1, u.scale, <<>>)
        s1 == Get(o2, u.scale)
        s2 == IF Has(s1, u.backend) THEN s1 ELSE Put(s1, u.backend, <<>>)
        b1 == Get(s2, u.backend)
        b2 == IF Has(b1, u.impl) THEN b1 ELSE Put(b1, u.impl, u.stats)
    IN  Put(t1, u.op, Put(o2, u.scale, Put(s2, u.backend, b2)))

\* variant: a backend mapping created on demand is stored without the entry
MergeEntryHollow(kv, u) ==
    LET t1 == IF Has(kv, u.op) THEN kv ELSE Put(kv, u.op, <<>>)
        o1 == Get(t1, u.op)
        o2 == IF Has(o1, u.scale) THEN o1 ELSE Put(o1, u.scale, <<>>)
        s1 == Get(o2, u.scale)
        s2 == IF Has(s1, u.backend) THEN s1 ELSE Put(s1, u.backend, <<>>)
        b1 == Get(s2, u.backend)
        b2 == IF Has(s1, u.backend) THEN Put(b1, u.impl, u.stats) ELSE b1
    IN  Put(t1, u.op, Put(o2, u.scale, Put(s2, u.backend, b2)))

\* lines 135-140 on a tree whose levels are mappings
MergeEntry(kv, u) ==
    LET t1 == IF Has(kv, u.op) THEN kv ELSE Put(kv, u.op, <<>>)
        o1 == Get(t1, u.op)
        o2 == IF Has(o1, u.scale) THEN o1 ELSE Put(o1, u.scale, <<>>)
        s1 == Get(o2, u.scale)
        s2 == IF Has(s1, u.backend) THEN s1 ELSE Put(s1, u.backend, <<>>)
        b1 == Get(s2, u.backend)
        b2 == Put(b1, u.impl, u.stats)
    IN  Put(t1, u.op, Put(o2, u.scale, Put(s2, u.backend, b2)))

RECURSIVE MergeAll(_, _)
MergeAll(kv, updates) ==
    IF updates = <<>> THEN kv
    ELSE MergeAll(MergeEntry(kv, Head(updates)), Tail(updates))

\* variant: a file without entries starts the tree afresh
ApplyFileFresh(tree, found, updates) ==
    IF ~found \/ updates = <<>> THEN [tree |-> EmptyObj, crashed |-> FALSE]
    ELSE IF tree.t # "obj" THEN [tree |-> tree, crashed |-> TRUE]
    ELSE [tree |-> [t |-> "obj", kv |-> MergeAll(tree.kv, updates)],
          crashed |-> FALSE]

\* lines 131-142: the tree after the file, or the TypeError of
\* result_tree[op] = {} on a loaded document that is not a mapping
ApplyFile(tree, found, updates) ==
    IF ~found \/ updates = <<>> THEN [tree |-> tree, crashed |-> FALSE]
    ELSE IF tree.t # "obj" THEN [tree |-> tree, crashed |-> TRUE]
    ELSE [tree |-> [t |-> "obj", kv |-> MergeAll(tree.kv, updates)],
          crashed |-> FALSE]


\* -------------------------------------------------------------- reporter
\* the characters of the model in code-point order
Alphabet == <<" ", "(", ")", "-", ".", "0", "1", "2", "3", "4", "5", "6", "7", "8", "9", "_", "a", "b", "c", "d", "e", "f", "g", "h", "i", "j", "k", "l", "m", "n", "o", "p", "q", "r", "s", "t", "u", "v", "w", "x", "y", "z">>

Ord(c) == CHOOSE i \in 1..Len(Alphabet) : Alphabet[i] = c

\* a < b on str
RECURSIVE LexLess(_, _)
LexLess(a, b) ==
    IF a = <<>> THEN b # <<>>
    ELSE IF b = <<>> THEN FALSE
    ELSE IF Head(a) = Head(b) THEN LexLess(Tail(a), Tail(b))
    ELSE Ord(Head(a)) < Ord(Head(b))

RECURSIVE InsertLex(_, _)
InsertLex(sorted, x) ==
    IF sorted = <<>> THEN <<x>>
    ELSE IF LexLess(x, Head(sorted)) THEN <<x>> \o sorted
    ELSE <<Head(sorted)>> \o InsertLex(Tail(sorted), x)

\* sorted(xs) on a list of str
RECURSIVE SortedLex(_)
SortedLex(xs) ==
    IF xs = <<>> THEN <<>>
    ELSE InsertLex(SortedLex(SubSeq(xs, 1, Len(xs) - 1)), xs[Len(xs)])

IsDigit(x) == x # <<>> /\ \A i \in 1..Len(x) : x[i] \in Digits

DigitVal(c) == Ord(c) - Ord("0")

RECURSIVE ToInt(_)
ToInt(x) ==
    IF x = <<>> THEN 0
    ELSE 10 * ToInt(SubSeq(x, 1, Len(x) - 1)) + DigitVal(x[Len(x)])

\* key=lambda x: int(x) if x.isdigit() else 0
ScaleKey(x) == IF IsDigit(x) THEN ToInt(x) ELSE 0

RECURSIVE InsertScale(_, _)
InsertScale(sorted, x) ==
    IF sorted = <<>> THEN <<x>>
    ELSE IF ScaleKey(x) < ScaleKey(Head(sorted)) THEN <<x>> \o sorted
    ELSE <<Head(sorted)>> \o InsertScale(Tail(sorted), x)

RECURSIVE SortedScales(_)
SortedScales(xs) ==
    IF xs = <<>> THEN <<>>
    ELSE InsertScale(SortedScales(SubSeq(xs, 1, Len(xs) - 1)), xs[Len(xs)])

RECURSIVE SetToSeq(_)
SetToSeq(S) ==
    IF S = {} THEN <<>>
    ELSE LET x == CHOOSE y \in S : TRUE IN <<x>> \o SetToSeq(S \ {x})

\* lines 26-29: sorted(list(backends)) of the union over the scales
Backends(scales_dict) ==
    SortedLex(SetToSeq(UNION {{scales_dict[i].v[j].k : j \in 1..Len(scales_dict[i].v)}
                              : i \in 1..Len(scales_dict)}))

RECURSIVE GCD(_, _)
GCD(a, b) == IF b = 0 THEN a ELSE GCD(b, a % b)

Abs(a) == IF a < 0 THEN -a ELSE a

\* a / b for b > 0, as a fraction in lowest terms
Frac(a, b) ==
    LET g == GCD(Abs(a), b) IN [num |-> a \div g, den |-> b \div g]

Zero == [num |-> 0, den |-> 1]

\* variant: lib is preferred to naive
BaselineKeyLibFirst(impls) ==
    IF Has(impls, lib) THEN lib
    ELSE IF Has(impls, naive) THEN naive
    ELSE impls[1].k

\* lines 62-67
BaselineKey(impls) ==
    IF Has(impls, naive) THEN naive
    ELSE IF Has(impls, lib) THEN lib
    ELSE impls[1].k

\* variant: the ratio is inverted
get_speedup_inverted(impls, baseline_time, key) ==
    IF Has(impls, key) /\ Get(impls, key).mean > 0 /\ baseline_time > 0
    THEN Frac(Get(impls, key).mean, baseline_time)
    ELSE Zero

\* lines 75-78
get_speedup(impls, baseline_time, key) ==
    IF Has(impls, key) /\ Get(impls, key).mean > 0
    THEN Frac(baseline_time, Get(impls, key).mean)
    ELSE Zero

\* lines 59-83 for one scale of one backend
Row(impls, scale) ==
    LET baseline_key == BaselineKey(impls)
        baseline_time == Get(impls, baseline_key).mean
    IN  [ scale    |-> scale,
          baseline |-> baseline_key,
          lib      |-> get_speedup(impls, baseline_time, lib),
          array1d  |-> get_speedup(impls, baseline_time, array1d),
          array2d  |-> get_speedup(impls, baseline_time, array2d),
          naive    |-> get_speedup(impls, baseline_time, naive) ]

RECURSIVE Rows(_, _, _)
Rows(scales_dict, scales, backend) ==
    IF scales = <<>> THEN <<>>
    ELSE LET here == Get(scales_dict, Head(scales))
             rest == Rows(scales_dict, Tail(scales), backend)
         IN  IF Has(here, backend)
             THEN <<Row(Get(here, backend), Head(scales))>> \o rest
             ELSE rest

\* list(impls.keys())[0] raises IndexError on an empty mapping
RaisesIndexError(scales_dict) ==
    \E i \in 1..Len(scales_dict) :
        \E j \in 1..Len(scales_dict[i].v) : scales_dict[i].v[j].v = <<>>

Chart(project, scales_dict) ==
    LET sorted_scales == SortedScales(Keys(scales_dict))
        backends == Backends(scales_dict)
    IN  [ project |-> project,
          panels  |-> [b \in 1..Len(backends) |->
                        [ backend |-> backends[b],
                          rows    |-> Rows(scales_dict, sorted_scales, backends[b]) ]] ]

\* lines 20-132 over the sorted projects: the charts saved, and whether the
\* run stopped on an exception
RECURSIVE Charts(_, _)
Charts(data, projects) ==
    IF projects = <<>> THEN [saved |-> <<>>, raised |-> FALSE]
    ELSE LET scales_dict == Get(data, Head(projects))
         IN  IF Backends(scales_dict) = <<>> THEN Charts(data, Tail(projects))
             ELSE IF RaisesIndexError(scales_dict)
                  THEN [saved |-> <<>>, raised |-> TRUE]
             ELSE LET rest == Charts(data, Tail(projects))
                  IN  [ saved  |-> <<Chart(Head(projects), scales_dict)>> \o rest.saved,
                        raised |-> rest.raised ]

NoReport == [status |-> "none", charts |-> <<>>]

\* proc.main on the data file
RunReport(d) ==
    IF d.t = "absent" THEN [status |-> "nofile", charts |-> <<>>]
    ELSE IF d.t = "corrupt" THEN [status |-> "loaderror", charts |-> <<>>]
    ELSE IF d.t # "obj" THEN [status |-> "keyserror", charts |-> <<>>]
    ELSE LET r == Charts(d.kv, SortedLex(Keys(d.kv)))
         IN  [ status |-> IF r.raised THEN "indexerror" ELSE "ok",
               charts |-> r.saved ]


\* ----------------------------------------------------------------- state
VARIABLES
    doc,                \* cleaned_benchmarks.json: absent, unreadable or a JSON value
    result_tree,        \* clean_up.main: result_tree
    pc,                 \* clean_up.main: position
    fileIdx,            \* clean_up.main: index into FILES of "for filename in FILES"
    runs,               \* normalizer runs started
    lines,              \* clean_up.main: the lines of the file opened in this iteration
    temp_updates,       \* clean_up.main: temp_updates
    new_entries_found,  \* clean_up.main: new_entries_found
    last,               \* history: the last entry merged into result_tree per tuple
    lastDoc,            \* history: the same for the persisted document
    report,             \* proc.main: outcome and the charts saved
    label_frags,        \* get_info input: the fragments of the label's first token
    label_tail,         \* get_info input: what follows the first token
    info,               \* get_info(full_name)
    info_again,         \* get_info(op) of the extracted operation name
    ipc                 \* position of the extraction run

vars == << doc, result_tree, pc, fileIdx, runs, lines, temp_updates,
           new_entries_found, last, lastDoc, report,
           label_frags, label_tail, info, info_again, ipc >>

normVars == << result_tree, pc, fileIdx, runs, lines, temp_updates,
               new_entries_found, last, lastDoc >>

infoVars == << label_frags, label_tail, info, info_again, ipc >>

\* --------------------------------------------------------------- inputs
Stat(n) == [mean |-> n]

Scalar(b) == [t |-> "scalar", truthy |-> b]

List(items) == [t |-> "list", items |-> items]

Obj(kv) == [t |-> "obj", kv |-> kv]

KV(k, v) == [k |-> k, v |-> v]

JsonLine(content) == [brace |-> TRUE, valid |-> TRUE, content |-> content]

LabelNaive == <<"n", "a", "i", "v", "e", "_", "m", "a", "t", "_", "m", "u", "l", " ", "s", "c", "a", "l", "e", "(", "6", "4", ")">>
LabelArray1d == <<"a", "r", "r", "a", "y", "1", "d", "_", "m", "a", "t", "_", "m", "u", "l", " ", "s", "c", "a", "l", "e", "(", "6", "4", ")">>
LabelNaiveAlias == <<"n", "a", "i", "v", "e", "_", "m", "a", "t", "r", "i", "x", "_", "m", "u", "l", " ", "s", "c", "a", "l", "e", "(", "6", "4", ")">>

\* text that does not start with "{"
LineText == [brace |-> FALSE, valid |-> FALSE, content |-> <<>>]
\* starts with "{" and json.loads raises
LineBroken == [brace |-> TRUE, valid |-> FALSE, content |-> <<>>]
\* {}
LineNoKey == JsonLine(<<>>)
\* {"js": []}
LineEmptyList == JsonLine(<< KV(<<"j", "s">>, List(<<>>)) >>)
\* {"js": 5}
LineNumber == JsonLine(<< KV(<<"j", "s">>, Scalar(TRUE)) >>)
\* {"js": [{}]}
LineEmptyEntry == JsonLine(<< KV(<<"j", "s">>, List(<< Obj(<<>>) >>)) >>)
\* {"js": [{"naive_mat_mul scale(64)": {"mean": 10}}, {"array1d_mat_mul scale(64)": {"mean": 2}}]}
LineTwo ==
    JsonLine(<< KV(<<"j", "s">>, List(<< Obj(<< KV(LabelNaive, Stat(10)) >>),
                                 Obj(<< KV(LabelArray1d, Stat(2)) >>) >>)) >>)
\* {"js": [{"naive_mat_mul scale(64)": {"mean": 1}}, 5]}
LinePartial ==
    JsonLine(<< KV(<<"j", "s">>, List(<< Obj(<< KV(LabelNaive, Stat(1)) >>),
                                 Scalar(TRUE) >>)) >>)
\* {"js": [{"naive_mat_mul scale(64)": {"mean": 2}}, {"naive_matrix_mul scale(64)": {"mean": 1}}]}
LineAlias ==
    JsonLine(<< KV(<<"j", "s">>, List(<< Obj(<< KV(LabelNaive, Stat(2)) >>),
                                 Obj(<< KV(LabelNaiveAlias, Stat(1)) >>) >>)) >>)

LinePool ==
    { LineText, LineBroken, LineNoKey, LineEmptyList, LineNumber,
      LineEmptyEntry, LineTwo, LinePartial, LineAlias }

SeqsUpTo(S, n) == UNION {[1..m -> S] : m \in 0..n}

\* the files whose content ranges over the whole pool; the other files
\* are empty or hold the one line LineTwo
RichFiles == {1}

Contents(i) ==
    IF i \in RichFiles THEN SeqsUpTo(LinePool, MaxLines)
    ELSE {<<>>, <<LineTwo>>}

DocAbsent == [t |-> "absent"]
DocCorrupt == [t |-> "corrupt"]
DocList == List(<<>>)
\* {"mat_mul": {}}
DocHollow == Obj(<< KV(<<"m", "a", "t", "_", "m", "u", "l">>, <<>>) >>)
\* {"mat_mul": {"64": {"js": {"lib": {"mean": 2}}}}}
DocPrior ==
    Obj(<< KV(<<"m", "a", "t", "_", "m", "u", "l">>, << KV(<<"6", "4">>, << KV(<<"j", "s">>, << KV(lib, Stat(2)) >>) >>) >>) >>)

InitDocs == {DocAbsent, DocCorrupt, DocList, EmptyObj, DocHollow, DocPrior}

\* the leaves of a tree, one record per (operation, scale, backend, implementation)
Leaves(kv) ==
    UNION {UNION {UNION {
        { [op |-> kv[a].k, scale |-> kv[a].v[b].k, backend |-> kv[a].v[b].v[c].k,
           impl |-> kv[a].v[b].v[c].v[d].k, stats |-> kv[a].v[b].v[c].v[d].v]
          : d \in 1..Len(kv[a].v[b].v[c].v) }
        : c \in 1..Len(kv[a].v[b].v) }
        : b \in 1..Len(kv[a].v) }
        : a \in 1..Len(kv) }

SameTuple(r, u) ==
    r.op = u.op /\ r.scale = u.scale /\ r.backend = u.backend /\ r.impl = u.impl

RECURSIVE Record(_, _)
Record(hist, updates) ==
    IF updates = <<>> THEN hist
    ELSE Record({r \in hist : ~SameTuple(r, Head(updates))} \cup {Head(updates)},
                Tail(updates))

NoInfo == [op |-> <<>>, scale |-> <<>>, impl |-> <<>>]

\* ----------------------------------------------------- normalizer actions
\* lines 87-98
Load ==
    /\ pc \in {"idle", "done", "crashed"}
    /\ runs < MaxRuns
    /\ runs' = runs + 1
    /\ result_tree' = IF doc.t \in {"absent", "corrupt"} THEN EmptyObj ELSE doc
    /\ last' = IF doc.t \in {"absent", "corrupt"} THEN {} ELSE lastDoc
    /\ fileIdx' = 1
    /\ lines' = <<>>
    /\ temp_updates' = <<>>
    /\ new_entries_found' = FALSE
    /\ pc' = "files"
    /\ UNCHANGED << doc, lastDoc, report >>
    /\ UNCHANGED infoVars

\* lines 101-103
SkipMissing ==
    /\ pc = "files"
    /\ fileIdx <= Len(FILES)
    /\ fileIdx' = fileIdx + 1
    /\ lines' = <<>>
    /\ UNCHANGED << doc, result_tree, pc, runs, temp_updates,
                    new_entries_found, last, lastDoc, report >>
    /\ UNCHANGED infoVars

\* lines 106-128
ReadFile ==
    /\ pc = "files"
    /\ fileIdx <= Len(FILES)
    /\ \E content \in Contents(fileIdx) :
         LET r == ReadLines(content, BackendId(FILES[fileIdx]))
         IN  /\ lines' = content
             /\ temp_updates' = r.updates
             /\ new_entries_found' = r.found
    /\ pc' = "merge"
    /\ UNCHANGED << doc, result_tree, fileIdx, runs, last, lastDoc, report >>
    /\ UNCHANGED infoVars

\* lines 131-142
MergeFile ==
    /\ pc = "merge"
    /\ LET r == ApplyFile(result_tree, new_entries_found, temp_updates)
       IN  /\ result_tree' = r.tree
           /\ pc' = IF r.crashed THEN "crashed" ELSE "files"
           /\ last' = IF r.crashed \/ ~new_entries_found THEN last
                      ELSE Record(last, temp_updates)
    /\ fileIdx' = fileIdx + 1
    /\ UNCHANGED << doc, runs, lines, temp_updates, new_entries_found,
                    lastDoc, report >>
    /\ UNCHANGED infoVars

\* lines 145-148
Write ==
    /\ pc = "files"
    /\ fileIdx > Len(FILES)
    /\ doc' = result_tree
    /\ lastDoc' = last
    /\ pc' = "done"
    /\ lines' = <<>>
    /\ UNCHANGED << result_tree, fileIdx, runs, temp_updates,
                    new_entries_found, last, report >>
    /\ UNCHANGED infoVars

\* proc.main, run by the operator when no normalizer run is under way
Report ==
    /\ pc \in {"idle", "done", "crashed"}
    /\ report' = RunReport(doc)
    /\ UNCHANGED doc
    /\ UNCHANGED normVars
    /\ UNCHANGED infoVars

Init ==
    /\ doc \in InitDocs
    /\ result_tree = EmptyObj
    /\ pc = "idle"
    /\ fileIdx = 1
    /\ runs = 0
    /\ lines = <<>>
    /\ temp_updates = <<>>
    /\ new_entries_found = FALSE
    /\ last = {}
    /\ lastDoc = IF doc.t = "obj" THEN Leaves(doc.kv) ELSE {}
    /\ report = NoReport
    /\ label_frags = <<>>
    /\ label_tail = <<>>
    /\ info = NoInfo
    /\ info_again = NoInfo
    /\ ipc = "off"

Next == Load \/ SkipMissing \/ ReadFile \/ MergeFile \/ Write \/ Report

Spec == Init /\ [][Next]_vars


\* ------------------------------------------------------ extraction runs
Frags ==
    { <<"n", "a", "i", "v", "e", "_">>, <<"a", "r", "r", "a", "y", "1", "d", "_">>, <<"a", "r", "r", "a", "y", "2", "d", "_">>, <<"l", "i", "b", "_">>, <<"n", "a", "t", "i", "v", "e", "_">>, <<"a", "r", "r", "a", "y", "_", "1", "d", "_">>,
      <<"a", "r", "r", "a", "y", "_", "2", "d", "_">>, <<"2", "d", "_">>, <<"_", "2", "d", "_">>,
      <<"m", "a", "t", "r", "i", "x", "_">>, <<"v", "e", "c", "t", "o", "r", "_">>, <<"m", "a", "t", "_">>, <<"v", "e", "c", "_">>, <<"m", "u", "l">>, <<"d", "e", "t">>, <<"d", "e", "t", "e", "r", "m", "i", "n", "a", "n", "t">> }

Tails == { <<>>, <<" ", "s", "c", "a", "l", "e", "(", "6", "4", ")">>, <<" ", "s", "c", "a", "l", "e", "(", ")">> }

RECURSIVE Flatten(_)
Flatten(fs) == IF fs = <<>> THEN <<>> ELSE Head(fs) \o Flatten(Tail(fs))

FullName == Flatten(label_frags) \o label_tail

InitInfo ==
    /\ label_frags \in SeqsUpTo(Frags, MaxFrags)
    /\ label_tail \in Tails
    /\ info = NoInfo
    /\ info_again = NoInfo
    /\ ipc = "label"
    /\ doc = DocAbsent
    /\ result_tree = EmptyObj
    /\ pc = "idle"
    /\ fileIdx = 1
    /\ runs = 0
    /\ lines = <<>>
    /\ temp_updates = <<>>
    /\ new_entries_found = FALSE
    /\ last = {}
    /\ lastDoc = {}
    /\ report = NoReport

\* op, scale, impl = get_info(full_name)
Extract ==
    /\ ipc = "label"
    /\ info' = get_info(FullName)
    /\ ipc' = "extracted"
    /\ UNCHANGED << label_frags, label_tail, info_again, doc, report >>
    /\ UNCHANGED normVars

\* get_info on the operation name just extracted
ReExtract ==
    /\ ipc = "extracted"
    /\ info_again' = get_info(info.op)
    /\ ipc' = "reextracted"
    /\ UNCHANGED << label_frags, label_tail, info, doc, report >>
    /\ UNCHANGED normVars

\* lines 112-140 for bench_js.txt holding the one entry {full_name: {"mean": 1}}
MergeLabel ==
    /\ ipc = "reextracted"
    /\ LET line == JsonLine(<< KV(<<"j", "s">>, List(<< Obj(<< KV(FullName, Stat(1)) >>) >>)) >>)
           r == ReadLines(<<line>>, BackendId(FILES[1]))
       IN  /\ lines' = <<line>>
           /\ temp_updates' = r.updates
           /\ new_entries_found' = r.found
           /\ result_tree' = ApplyFile(result_tree, r.found, r.updates).tree
    /\ ipc' = "merged"
    /\ UNCHANGED << label_frags, label_tail, info, info_again, doc, report,
                    pc, fileIdx, runs, last, lastDoc >>

NextInfo == Extract \/ ReExtract \/ MergeLabel

SpecInfo == InitInfo /\ [][NextInfo]_vars

\* --------------------------------------------------------- reporter runs
ImplKeys == {lib, array1d, array2d, naive, other}

Means == 0..MaxMean

\* the implementation mappings of one (scale, backend): distinct keys in
\* insertion order
ImplGroups ==
    { g \in SeqsUpTo([k : ImplKeys, v : {Stat(m) : m \in Means}], MaxImpls) :
        \A i, j \in 1..Len(g) : i # j => g[i].k # g[j].k }

\* a document with the group g at mat_mul -> "64" -> "js"; with more, also
\* other scales, backends and operations, one of them without any scale
DocOf(g, more) ==
    IF ~more
    THEN Obj(<< KV(<<"m", "a", "t", "_", "m", "u", "l">>, << KV(<<"6", "4">>, << KV(<<"j", "s">>, g) >>) >>) >>)
    ELSE Obj(<< KV(<<"v", "e", "c", "_", "d", "o", "t">>, << KV(unknown, << KV(<<"j", "s">>, << KV(other, Stat(1)) >>) >>) >>),
                KV(<<"m", "a", "t", "_", "m", "u", "l">>,
                   << KV(<<"6", "4">>, << KV(<<"j", "s">>, g) >>),
                      KV(unknown, << KV(<<"w", "a", "s", "m">>, << KV(lib, Stat(1)) >>) >>),
                      KV(<<"8">>, << KV(<<"w", "a", "s", "m">>, << KV(array1d, Stat(2)), KV(naive, Stat(4)) >>),
                                 KV(<<"j", "s">>, << KV(array2d, Stat(3)) >>) >>) >>),
                KV(<<"m", "a", "t", "_", "d", "e", "t">>, <<>>) >>)

ReportDocs == {DocOf(g, more) : g \in ImplGroups, more \in BOOLEAN}

InitReport ==
    /\ doc \in ReportDocs
    /\ report = NoReport
    /\ result_tree = EmptyObj
    /\ pc = "idle"
    /\ fileIdx = 1
    /\ runs = 0
    /\ lines = <<>>
    /\ temp_updates = <<>>
    /\ new_entries_found = FALSE
    /\ last = {}
    /\ lastDoc = {}
    /\ label_frags = <<>>
    /\ label_tail = <<>>
    /\ info = NoInfo
    /\ info_again = NoInfo
    /\ ipc = "off"

NextReport == Report

SpecReport == InitReport /\ [][NextReport]_vars


\* =============================================================== claims
HasLeaf(kv, r) ==
    /\ Has(kv, r.op)
    /\ Has(Get(kv, r.op), r.scale)
    /\ Has(Get(Get(kv, r.op), r.scale), r.backend)
    /\ Has(Get(Get(Get(kv, r.op), r.scale), r.backend), r.impl)

LeafOf(kv, r) == Get(Get(Get(Get(kv, r.op), r.scale), r.backend), r.impl)

NaiveJs == [op |-> <<"m", "a", "t", "_", "m", "u", "l">>, scale |-> <<"6", "4">>, backend |-> <<"j", "s">>, impl |-> naive]

\* a line that cannot be parsed, or whose entry list is missing or empty
ZeroEntryLine(l) ==
    \/ ~l.brace
    \/ ~l.valid
    \/ l.content = <<>>
    \/ (l.content[1].v.t = "list" /\ l.content[1].v.items = <<>>)

\* C1: a file that yields zero parsed entries (no line, only unparseable
\* lines, only empty entry lists) leaves the tree as it was before the file,
\* the run goes on, and the document written is that tree.
C1_ZeroEntryFileKeepsTree ==
    [][ /\ (pc = "merge" /\ (\A i \in 1..Len(lines) : ZeroEntryLine(lines[i])))
           => temp_updates = <<>>
        /\ (pc = "merge" /\ temp_updates = <<>>)
           => (result_tree' = result_tree /\ pc' = "files")
        /\ (pc = "files" /\ pc' = "done") => doc' = result_tree ]_vars

\* the second run has read an unparseable bench_js.txt and the entries the
\* first run persisted for js are still in the tree
C1_Witness ==
    /\ runs = 2
    /\ pc = "files"
    /\ fileIdx = 2
    /\ lines = <<LineBroken>>
    /\ temp_updates = <<>>
    /\ doc.t = "obj"
    /\ HasLeaf(doc.kv, NaiveJs)
    /\ result_tree = doc

\* C2: the statistics stored at every tuple, in the tree and in the
\* persisted document, are those of the entry merged last for that tuple.
C2_LastWriteWins ==
    /\ result_tree.t = "obj" =>
         \A r \in last : HasLeaf(result_tree.kv, r) /\ LeafOf(result_tree.kv, r) = r.stats
    /\ doc.t = "obj" =>
         \A r \in lastDoc : HasLeaf(doc.kv, r) /\ LeafOf(doc.kv, r) = r.stats

\* the first run persisted mean 10 for (mat_mul, 64, js, naive); the second
\* run's bench_js.txt supplied mean 1 for the same tuple and it won
C2_Witness ==
    /\ runs = 2
    /\ pc = "done"
    /\ doc.t = "obj"
    /\ HasLeaf(doc.kv, NaiveJs)
    /\ LeafOf(doc.kv, NaiveJs) = Stat(1)
    /\ \E r \in lastDoc : SameTuple(r, NaiveJs) /\ r.stats = Stat(1)
    /\ Cardinality(lastDoc) >= 2

\* C3: extraction is idempotent on operation names.
C3_ExtractionIdempotent ==
    ipc \in {"reextracted", "merged"} => info_again.op = info.op

PrefixSet == {prefixes[i] : i \in 1..Len(prefixes)}

StartsWithPrefix(x) == \E q \in PrefixSet : StartsWith(x, q)

\* the number of leading fragments of the label that are recognised prefixes
RECURSIVE LeadingPrefixes(_)
LeadingPrefixes(fs) ==
    IF fs = <<>> \/ Head(fs) \notin PrefixSet THEN 0
    ELSE 1 + LeadingPrefixes(Tail(fs))

\* the label's first token without its composition of prefixes
BaseName == Flatten(SubSeq(label_frags, LeadingPrefixes(label_frags) + 1, Len(label_frags)))

\* C8: a composition of recognised prefixes before a base name that starts
\* with none gives the operation name of the base name alone, the aliases of
\* mat_mul and mat_det collapse, scale(64) gives scale "64", and the entry
\* lands in the tree under that name, scale, backend js and implementation.
C8_PrefixesCollapse ==
    (ipc \in {"extracted", "reextracted", "merged"} /\ ~StartsWithPrefix(BaseName)) =>
        /\ info.op = get_info(BaseName).op
        /\ label_tail = <<" ", "s", "c", "a", "l", "e", "(", "6", "4", ")">> => info.scale = <<"6", "4">>
        /\ label_tail = <<>> => info.scale = unknown
        /\ BaseName \in {<<"m", "u", "l">>, <<"m", "a", "t", "r", "i", "x", "_", "m", "u", "l">>, <<"m", "a", "t", "_", "m", "u", "l">>} => info.op = <<"m", "a", "t", "_", "m", "u", "l">>
        /\ BaseName \in {<<"m", "a", "t", "r", "i", "x", "_", "d", "e", "t", "e", "r", "m", "i", "n", "a", "n", "t">>, <<"d", "e", "t">>} => info.op = <<"m", "a", "t", "_", "d", "e", "t">>
        /\ ipc = "merged" =>
             HasLeaf(result_tree.kv,
                     [op |-> get_info(BaseName).op, scale |-> info.scale,
                      backend |-> <<"j", "s">>, impl |-> info.impl])

\* naive_array2d_mul scale(64) was extracted and merged
C8_Witness ==
    /\ ipc = "merged"
    /\ label_frags = << <<"n", "a", "i", "v", "e", "_">>, <<"a", "r", "r", "a", "y", "2", "d", "_">>, <<"m", "u", "l">> >>
    /\ label_tail = <<" ", "s", "c", "a", "l", "e", "(", "6", "4", ")">>
    /\ info = [op |-> <<"m", "a", "t", "_", "m", "u", "l">>, scale |-> <<"6", "4">>, impl |-> naive]
    /\ HasLeaf(result_tree.kv, NaiveJs)

\* C9: a label whose first token loses a recognised prefix is tagged naive,
\* array1d, array2d or lib, and "other" only when nothing was stripped.
C9_ImplAgreesWithStripping ==
    ipc \in {"extracted", "reextracted", "merged"} =>
        LET stripped == StartsWithPrefix(FirstToken(FullName))
        IN  /\ stripped => info.impl \in {naive, array1d, array2d, lib}
            /\ info.impl = other => ~stripped

\* the shape the line format asks for: one top-level key naming a list of
\* single-key mappings
WellShaped(l) ==
    /\ l.brace
    /\ l.valid
    /\ Len(l.content) = 1
    /\ l.content[1].v.t = "list"
    /\ \A i \in 1..Len(l.content[1].v.items) :
         /\ l.content[1].v.items[i].t = "obj"
         /\ Len(l.content[1].v.items[i].kv) = 1

RECURSIVE WellShapedEntries(_)
WellShapedEntries(ls) ==
    IF ls = <<>> THEN 0
    ELSE (IF WellShaped(Head(ls)) THEN Len(Head(ls).content[1].v.items) ELSE 0)
         + WellShapedEntries(Tail(ls))

\* C6: only the lines of the required shape contribute entries; every other
\* line is skipped in full.
C6_MalformedLineSkippedInFull ==
    pc = "merge" => Len(temp_updates) = WellShapedEntries(lines)

\* C7: every normalizer run ends with the output document written.
C7_OutputAlwaysWritten == pc # "crashed"

NoEmptyMapping(d) ==
    d.t = "obj" =>
        \A a \in 1..Len(d.kv) :
            /\ d.kv[a].v # <<>>
            /\ \A b \in 1..Len(d.kv[a].v) :
                 /\ d.kv[a].v[b].v # <<>>
                 /\ \A c \in 1..Len(d.kv[a].v[b].v) : d.kv[a].v[b].v[c].v # <<>>

\* C10: once neither the tree nor the document holds an empty mapping, no
\* step makes one, and a reporter run then charts every operation and finds
\* a baseline for every group.
C10_NoEmptyMapping ==
    [][ (NoEmptyMapping(doc) /\ NoEmptyMapping(result_tree)) =>
          /\ NoEmptyMapping(doc')
          /\ NoEmptyMapping(result_tree')
          /\ report' # report =>
               /\ report'.status # "indexerror"
               /\ doc.t = "obj" => Len(report'.charts) = Len(doc.kv) ]_vars

\* two runs have merged entries of several backends and the reporter has
\* charted the document
C10_Witness ==
    /\ runs = 2
    /\ pc = "done"
    /\ doc.t = "obj"
    /\ doc.kv # <<>>
    /\ NoEmptyMapping(doc)
    /\ Len(doc.kv[1].v[1].v) >= 2
    /\ report.status = "ok"
    /\ Len(report.charts) = Len(doc.kv)

Slots == {lib, array1d, array2d, naive}

SlotVal(row, key) ==
    IF key = lib THEN row.lib
    ELSE IF key = array1d THEN row.array1d
    ELSE IF key = array2d THEN row.array2d
    ELSE row.naive

\* the rows the reporter charted, each with the implementations it was
\* computed from
RowFacts ==
    UNION {UNION {
        { [ impls |-> Get(Get(Get(doc.kv, report.charts[c].project),
                              report.charts[c].panels[b].rows[r].scale),
                          report.charts[c].panels[b].backend),
            row   |-> report.charts[c].panels[b].rows[r] ]
          : r \in 1..Len(report.charts[c].panels[b].rows) }
        : b \in 1..Len(report.charts[c].panels) }
        : c \in 1..Len(report.charts) }

\* naive if present, else lib, else the first implementation present
StatedBaseline(impls) ==
    IF Has(impls, naive) THEN naive
    ELSE IF Has(impls, lib) THEN lib
    ELSE impls[1].k

One == [num |-> 1, den |-> 1]

\* C4 as stated: the baseline's own speedup is 1.0 for every value of the mean.
C4_BaselineSpeedupIsOne ==
    report.status = "ok" =>
        \A f \in RowFacts :
            StatedBaseline(f.impls) \in Slots =>
                SlotVal(f.row, StatedBaseline(f.impls)) = One

\* C4 amended: the baseline's own speedup is 1.0 when its mean is strictly
\* positive, and 0 when its mean is 0.
C4_PositiveBaselineSpeedupIsOne ==
    report.status = "ok" =>
        \A f \in RowFacts :
            LET key == StatedBaseline(f.impls)
            IN  key \in Slots =>
                  /\ Get(f.impls, key).mean > 0 => SlotVal(f.row, key) = One
                  /\ Get(f.impls, key).mean = 0 => SlotVal(f.row, key) = Zero

\* lib is the baseline of a group of two implementations, naive being absent
C4_Witness ==
    /\ report.status = "ok"
    /\ \E f \in RowFacts :
         /\ Len(f.impls) = 2
         /\ f.row.baseline = lib
         /\ f.impls[1].k # lib
         /\ Get(f.impls, lib).mean > 0
         /\ Get(f.impls, lib).mean # f.impls[1].v.mean
         /\ f.row.lib = One

\* C5: each slot reports baseline mean / own mean when the implementation is
\* present with a strictly positive mean, and 0 when it is absent or its
\* mean is 0.
C5_SpeedupPerSlot ==
    report.status = "ok" =>
        \A f \in RowFacts : \A key \in Slots :
            LET base == Get(f.impls, StatedBaseline(f.impls)).mean
                v == SlotVal(f.row, key)
            IN  /\ (Has(f.impls, key) /\ Get(f.impls, key).mean > 0) =>
                     (v.den > 0 /\ v.num * Get(f.impls, key).mean = base * v.den)
                /\ (~Has(f.impls, key) \/ Get(f.impls, key).mean = 0) => v = Zero

\* naive 4 and array1d 2: the array1d bar is 2.0, the naive bar 1.0 and the
\* absent lib bar 0
C5_Witness ==
    /\ report.status = "ok"
    /\ \E f \in RowFacts :
         /\ f.impls = << KV(naive, Stat(4)), KV(array1d, Stat(2)) >>
         /\ f.row.array1d = [num |-> 2, den |-> 1]
         /\ f.row.naive = One
         /\ f.row.lib = Zero

====
